---- MODULE Spec2Model ----
(***************************************************************************)
(* Natural-language-to-SQL assistant (src/app.py, src/src/pages,           *)
(* src/src/nlp, src/src/database): the Streamlit script of app.main is     *)
(* re-run once per user interaction.  One rerun is modelled as a chain of  *)
(* steps (pc) in the order the script executes them; the session state,    *)
(* the database connection and the widgets persist between reruns.         *)
(***************************************************************************)
EXTENDS Integers, Sequences, FiniteSets, TLC

(***************************************************************************)
(* Bounds and small input sets                                             *)
(***************************************************************************)
\* Largest number of rows a modelled result table holds.
MaxRows == 1

\* Questions typed in the text area ("" is the empty text area).
Questions == {"q1", "q2"}

\* SQL texts the LLM may produce or the user may type in the editor.
Sqls == {"sql_a", "sql_b"}

\* Base tables, in the ORDER BY TABLE_NAME order of get_tables.
TableOrder == <<"activities", "wbs">>

Tables == {TableOrder[i] : i \in DOMAIN TableOrder}

\* The catalogues the database may hold.
Catalogs == {{}, {"activities"}, {"activities", "wbs"}}

(***************************************************************************)
(* Values                                                                  *)
(***************************************************************************)
\* st.session_state.query_result = None (nl_sql_page.py:15)
NoTable == [kind |-> "None", sql |-> "", rows |-> 0]

\* a pandas DataFrame built by execute_query from the rows of one statement
DataFrame(sql, n) == [kind |-> "DataFrame", sql |-> sql, rows |-> n]

\* a str returned in place of a table (error text or affected-row message)
Message(text) == [kind |-> "str", sql |-> text, rows |-> 0]

\* "schema_info" not in st.session_state
NoSchema == [present |-> FALSE, tables |-> <<>>, relationships |-> {}]

\* "query_generator" not in st.session_state
NoGenerator == [present |-> FALSE, schema_info |-> NoSchema]

\* The rows INFORMATION_SCHEMA.COLUMNS holds for a table.
Columns(t) == IF t = "activities" THEN <<"Activity Id", "Progress">> ELSE <<"WBS1">>

\* The foreign keys sys.foreign_keys holds for a catalogue.
ForeignKeys(cat) == IF Tables \subseteq cat THEN {"fk_activities_wbs"} ELSE {}

\* What the pymssql driver does with one statement of execute_query.
DriverOutcomes ==
    {[kind |-> "rows", n |-> k] : k \in 0..MaxRows}
      \cup {[kind |-> k, n |-> 0] :
              k \in {"rowcount", "execute_error", "fetch_error", "commit_error"}}

\* What one HTTP request to the Azure OpenAI endpoint comes back with.
LlmOutcomes ==
    {[kind |-> "completion", text |-> s] : s \in Sqls}
      \cup {[kind |-> k, text |-> ""] : k \in {"timeout", "http_error", "no_choices"}}

\* The same, with the two other responses that carry no usable completion:
\* an empty "choices" list, and a first choice without message content.
LlmResponses ==
    LlmOutcomes
      \cup {[kind |-> k, text |-> ""] : k \in {"empty_choices", "no_content"}}

(***************************************************************************)
(* Database Gateway: DatabaseConnection (src/src/database/connection.py)   *)
(* conn is "None", "open", or "stale" (an object whose server side is      *)
(* gone, so that the liveness query fails); up says whether the server     *)
(* accepts connections and statements.                                     *)
(***************************************************************************)
connect(up) ==
    [result |-> up, conn |-> IF up THEN "open" ELSE "None"]

is_connected(c, up) ==
    IF c = "None" THEN [result |-> FALSE, conn |-> "None"]
    ELSE IF c = "open" /\ up THEN [result |-> TRUE, conn |-> c]
    ELSE [result |-> FALSE, conn |-> "None"]

\* EnsureConnection with a second connect() after a failed one.
EnsureConnectionRetrying(c, up) ==
    LET chk == is_connected(c, up) IN
    IF chk.result
    THEN [ok |-> TRUE, conn |-> chk.conn, connects |-> 0]
    ELSE LET cn == connect(up) IN
         IF cn.result
         THEN [ok |-> TRUE, conn |-> cn.conn, connects |-> 1]
         ELSE [ok |-> connect(up).result, conn |-> connect(up).conn, connects |-> 2]

\* "if not self.is_connected(): if not self.connect(): return <failure>"
EnsureConnection(c, up) ==
    LET chk == is_connected(c, up) IN
    IF chk.result
    THEN [ok |-> TRUE, conn |-> chk.conn, connects |-> 0]
    ELSE LET cn == connect(up) IN
         [ok |-> cn.result, conn |-> cn.conn, connects |-> 1]

\* One line of the log of Gateway calls made by a step: the connection
\* before and after, the connect() attempts, whether the statement ran,
\* what the driver did with it, and how the call ended.
GatewayCall(op, c, up, e, ran, driver, ok, returns, raised) ==
    [op |-> op, before |-> c, up |-> up, connects |-> e.connects,
     connected |-> e.ok, ran |-> ran, driver |-> driver, ok |-> ok,
     returns |-> returns, raised |-> raised, after |-> e.conn]

\* The driver's part in a schema query.
Driver(drvOk) == IF drvOk THEN "rows" ELSE "execute_error"

get_tables(c, up, cat, drvOk) ==
    LET e == EnsureConnection(c, up) IN
    [val |-> IF e.ok /\ drvOk THEN cat ELSE {}, conn |-> e.conn,
     call |-> GatewayCall("get_tables", c, up, e, e.ok, Driver(drvOk),
                          e.ok /\ drvOk, "list", FALSE)]

get_table_schema(c, up, t, drvOk) ==
    LET e == EnsureConnection(c, up) IN
    [val |-> IF e.ok /\ drvOk THEN Columns(t) ELSE <<>>, conn |-> e.conn,
     call |-> GatewayCall("get_table_schema", c, up, e, e.ok, Driver(drvOk),
                          e.ok /\ drvOk, "list", FALSE)]

get_table_relationships(c, up, cat, drvOk) ==
    LET e == EnsureConnection(c, up) IN
    [val |-> IF e.ok /\ drvOk THEN ForeignKeys(cat) ELSE {}, conn |-> e.conn,
     call |-> GatewayCall("get_table_relationships", c, up, e, e.ok, Driver(drvOk),
                          e.ok /\ drvOk, "list", FALSE)]

\* What an execute_query call hands back: raised says whether an exception
\* leaves the method; ok and val are the returned pair.
Returned(c, up, e, ran, driver, ok, val) ==
    [raised |-> FALSE, ok |-> ok, val |-> val, conn |-> e.conn,
     call |-> GatewayCall("execute_query", c, up, e, ran, driver, ok, val.kind, FALSE)]

\* An exception leaving execute_query.
Raised(c, up, e, driver) ==
    [raised |-> TRUE, ok |-> FALSE, val |-> Message(driver), conn |-> e.conn,
     call |-> GatewayCall("execute_query", c, up, e, TRUE, driver, FALSE, "none", TRUE)]

\* execute_query with self.conn.commit() outside the try block.
execute_query_commit_unguarded(c, up, sql, drv) ==
    LET e == EnsureConnection(c, up) IN
    IF ~e.ok
    THEN Returned(c, up, e, FALSE, drv.kind, FALSE, Message("Database connection failed"))
    ELSE IF drv.kind = "rows"
    THEN Returned(c, up, e, TRUE, drv.kind, TRUE, DataFrame(sql, drv.n))
    ELSE IF drv.kind = "rowcount"
    THEN Returned(c, up, e, TRUE, drv.kind, TRUE, Message("Rows affected"))
    ELSE IF drv.kind = "commit_error"
    THEN Raised(c, up, e, drv.kind)
    ELSE Returned(c, up, e, TRUE, drv.kind, FALSE, Message(drv.kind))

\* DatabaseConnection.execute_query: the except clause turns every driver
\* failure (execute, fetchall, commit) into (False, message).
execute_query(c, up, sql, drv) ==
    LET e == EnsureConnection(c, up) IN
    IF ~e.ok
    THEN Returned(c, up, e, FALSE, drv.kind, FALSE, Message("Database connection failed"))
    ELSE IF drv.kind = "rows"
    THEN Returned(c, up, e, TRUE, drv.kind, TRUE, DataFrame(sql, drv.n))
    ELSE IF drv.kind = "rowcount"
    THEN Returned(c, up, e, TRUE, drv.kind, TRUE, Message("Rows affected"))
    ELSE Returned(c, up, e, TRUE, drv.kind, FALSE, Message(drv.kind))

(***************************************************************************)
(* Schema Catalog                                                          *)
(***************************************************************************)
\* The tables of a catalogue in get_tables order.
TableList(cat) == SelectSeq(TableOrder, LAMBDA t : t \in cat)

\* The get_table_schema calls of a "for table in tables" loop; colFail are
\* the tables whose column query fails.
SchemaCalls(c, up, tables, colFail) ==
    [i \in DOMAIN TableList(tables) |->
        get_table_schema(c, up, TableList(tables)[i], TableList(tables)[i] \notin colFail)]

\* The connection after a loop of Gateway calls that started on c.
AfterCalls(c, calls) == IF calls = <<>> THEN c ELSE calls[Len(calls)].conn

CallLog(calls) == [i \in DOMAIN calls |-> calls[i].call]

\* What the loop's call for table t returned.
FetchedColumns(cols, tables, t) ==
    cols[CHOOSE i \in DOMAIN cols : TableList(tables)[i] = t].val

\* app.print_database_analysis: every enumerated table is kept, with
\* whatever column list came back; the result is stored in the session.
print_database_analysis(c, up, cat, tablesOk, colFail, relsOk) ==
    LET tb == get_tables(c, up, cat, tablesOk)
        cols == SchemaCalls(tb.conn, up, tb.val, colFail)
        rel == get_table_relationships(AfterCalls(tb.conn, cols), up, cat, relsOk)
    IN [schema |-> [present |-> TRUE,
                    tables |-> [t \in tb.val |-> FetchedColumns(cols, tb.val, t)],
                    relationships |-> rel.val],
        conn |-> rel.conn,
        log |-> <<tb.call>> \o CallLog(cols) \o <<rel.call>>]

\* DatabaseConnection.get_database_schema_info: the relationships first,
\* then every enumerated table with whatever column list came back.
get_database_schema_info(c, up, cat, tablesOk, colFail, relsOk) ==
    LET rel == get_table_relationships(c, up, cat, relsOk)
        tb == get_tables(rel.conn, up, cat, tablesOk)
        cols == SchemaCalls(tb.conn, up, tb.val, colFail)
    IN [schema |-> [present |-> TRUE,
                    tables |-> [t \in tb.val |-> FetchedColumns(cols, tb.val, t)],
                    relationships |-> rel.val],
        conn |-> AfterCalls(tb.conn, cols),
        log |-> <<rel.call>> \o <<tb.call>> \o CallLog(cols),
        enumerated |-> tb.val]

\* _load_schema_info asking for the relationships inside the table loop.
load_schema_info_relationships_per_table(session, c, up, cat, tablesOk, colFail, relsOk) ==
    IF session.present
    THEN [outcome |-> "cached", schema |-> session, session |-> session,
          conn |-> c, log |-> <<>>, queried |-> FALSE, connected |-> FALSE,
          enumerated |-> {}]
    ELSE LET chk1 == is_connected(c, up)
             c1 == IF chk1.result THEN chk1.conn ELSE connect(up).conn
             chk2 == is_connected(c1, up)
         IN IF chk2.result
            THEN LET tb == get_tables(chk2.conn, up, cat, tablesOk)
                     cols == SchemaCalls(tb.conn, up, tb.val, colFail)
                     kept == {t \in tb.val : FetchedColumns(cols, tb.val, t) # <<>>}
                     rel == get_table_relationships(AfterCalls(tb.conn, cols), up, cat, relsOk)
                     built == [present |-> TRUE,
                               tables |-> [t \in kept |-> FetchedColumns(cols, tb.val, t)],
                               relationships |-> rel.val]
                 IN [outcome |-> "loaded", schema |-> built, session |-> built,
                     conn |-> rel.conn,
                     log |-> <<tb.call>> \o CallLog(cols)
                               \o [i \in DOMAIN cols |-> rel.call],
                     queried |-> TRUE, connected |-> TRUE, enumerated |-> tb.val]
            ELSE [outcome |-> "AttributeError", schema |-> NoSchema,
                  session |-> session, conn |-> chk2.conn, log |-> <<>>,
                  queried |-> FALSE, connected |-> FALSE, enumerated |-> {}]

\* SQLQueryGenerator._load_schema_info.  outcome is "cached" (the session
\* value is returned), "loaded" (built from the database and stored) or
\* "AttributeError" (self._get_fallback_schema does not exist: the call in
\* the else branch raises, the except clause calls it again, and that
\* second AttributeError leaves the method).
load_schema_info(session, c, up, cat, tablesOk, colFail, relsOk) ==
    IF session.present
    THEN [outcome |-> "cached", schema |-> session, session |-> session,
          conn |-> c, log |-> <<>>, queried |-> FALSE, connected |-> FALSE,
          enumerated |-> {}]
    ELSE LET chk1 == is_connected(c, up)
             c1 == IF chk1.result THEN chk1.conn ELSE connect(up).conn
             chk2 == is_connected(c1, up)
         IN IF chk2.result
            THEN LET tb == get_tables(chk2.conn, up, cat, tablesOk)
                     cols == SchemaCalls(tb.conn, up, tb.val, colFail)
                     kept == {t \in tb.val : FetchedColumns(cols, tb.val, t) # <<>>}
                     rel == get_table_relationships(AfterCalls(tb.conn, cols), up, cat, relsOk)
                     built == [present |-> TRUE,
                               tables |-> [t \in kept |-> FetchedColumns(cols, tb.val, t)],
                               relationships |-> rel.val]
                 IN [outcome |-> "loaded", schema |-> built, session |-> built,
                     conn |-> rel.conn,
                     log |-> <<tb.call>> \o CallLog(cols) \o <<rel.call>>,
                     queried |-> TRUE, connected |-> TRUE, enumerated |-> tb.val]
            ELSE [outcome |-> "AttributeError", schema |-> NoSchema,
                  session |-> session, conn |-> chk2.conn, log |-> <<>>,
                  queried |-> FALSE, connected |-> FALSE, enumerated |-> {}]

(***************************************************************************)
(* SQL Generator and Result Summarizer, as far as the page sees them       *)
(***************************************************************************)
\* generate_sql_query testing the question before the credentials.
generate_sql_query_question_first(creds, question, llm) ==
    IF question = ""
    THEN [ok |-> FALSE, val |-> "provide a natural language query", requests |-> 0]
    ELSE IF ~creds
    THEN [ok |-> FALSE, val |-> "credentials are missing", requests |-> 0]
    ELSE IF llm.kind = "completion"
    THEN [ok |-> TRUE, val |-> llm.text, requests |-> 1]
    ELSE IF llm.kind \in {"no_choices", "empty_choices"}
    THEN [ok |-> FALSE, val |-> "unexpected response format", requests |-> 1]
    ELSE [ok |-> FALSE, val |-> "Error generating SQL query", requests |-> 1]

\* SQLQueryGenerator.generate_sql_query: (success, result) and the number of
\* HTTP requests issued.
\* The text of a completion stands for the SQL left by the clean-up of
\* lines 186-194, which generated_sql below computes character by character.
\* Every exception (a timeout, an HTTP error, the KeyError of a choice without
\* message content) ends in the except clause of line 198.
generate_sql_query(creds, question, llm) ==
    IF ~creds
    THEN [ok |-> FALSE, val |-> "credentials are missing", requests |-> 0]
    ELSE IF question = ""
    THEN [ok |-> FALSE, val |-> "provide a natural language query", requests |-> 0]
    ELSE IF llm.kind = "completion"
    THEN [ok |-> TRUE, val |-> llm.text, requests |-> 1]
    ELSE IF llm.kind \in {"no_choices", "empty_choices"}
    THEN [ok |-> FALSE, val |-> "unexpected response format", requests |-> 1]
    ELSE [ok |-> FALSE, val |-> "Error generating SQL query", requests |-> 1]

\* result_humanizer.py:343-379: what humanize_result makes of the response
\* to its request.  The KeyError of a choice without message content is no
\* RequestException: it reaches the outer except clause of line 376.
explanation(llm) ==
    IF llm.kind = "completion"
    THEN [ok |-> TRUE, val |-> "explanation", requests |-> 1]
    ELSE IF llm.kind \in {"no_choices", "empty_choices"}
    THEN [ok |-> FALSE, val |-> "unexpected response format", requests |-> 1]
    ELSE IF llm.kind = "no_content"
    THEN [ok |-> FALSE, val |-> "Error generating explanation", requests |-> 1]
    ELSE IF llm.kind = "timeout"
    THEN [ok |-> FALSE, val |-> "timed out", requests |-> 1]
    ELSE [ok |-> FALSE, val |-> "request failed", requests |-> 1]

\* ResultHumanizer.humanize_result: (success, explanation or error text).
humanize_result(creds, question, sql, df, llm) ==
    IF ~creds
    THEN [ok |-> FALSE, val |-> "credentials are missing", requests |-> 0]
    ELSE IF df.kind # "DataFrame"
    THEN [ok |-> FALSE, val |-> "Expected DataFrame", requests |-> 0]
    ELSE explanation(llm)

(***************************************************************************)
(* The same two functions examined on their own: their inputs                *)
(***************************************************************************)
\* st.secrets.get("AZURE_OPENAI_API_KEY", "") and st.secrets.get(
\* "AZURE_OPENAI_API_ENDPOINT", ""): "" when the secret is not configured.
ApiKeys == {"", "key"}

ApiEndpoints == {"", "https://endpoint"}

\* "not self.api_key or not self.api_endpoint" is false.
HasCredentials(api_key, api_endpoint) == ~(api_key = "" \/ api_endpoint = "")

\* Questions that are empty or consist only of whitespace.
BlankQuestions == {"", " ", "\n", " \t "}

(***************************************************************************)
(* Texts as sequences of characters, and the str methods the generator     *)
(* applies to a completion                                                 *)
(***************************************************************************)
\* The characters str.strip() removes.
Whitespace == {" ", "\n", "\t"}

RECURSIVE lstrip(_)
lstrip(s) ==
    IF s # <<>> /\ Head(s) \in Whitespace THEN lstrip(Tail(s)) ELSE s

RECURSIVE rstrip(_)
rstrip(s) ==
    IF s # <<>> /\ s[Len(s)] \in Whitespace THEN rstrip(SubSeq(s, 1, Len(s) - 1)) ELSE s

\* str.strip()
strip(s) == rstrip(lstrip(s))

\* str.startswith(prefix)
startswith(s, prefix) ==
    Len(s) >= Len(prefix) /\ SubSeq(s, 1, Len(prefix)) = prefix

\* str.endswith(suffix)
endswith(s, suffix) ==
    Len(s) >= Len(suffix) /\ SubSeq(s, Len(s) - Len(suffix) + 1, Len(s)) = suffix

\* s[n:]
SliceFrom(s, n) == SubSeq(s, n + 1, Len(s))

\* s[:-n]
SliceBefore(s, n) == SubSeq(s, 1, Len(s) - n)

\* The backquote character (each element of a text is one character).
Backquote == "backquote"

\* the closing fence marker: three backquotes
Fence == <<Backquote, Backquote, Backquote>>

\* the opening fence marker: three backquotes and "sql"
SqlFence == Fence \o <<"s", "q", "l">>

\* query_generator.py:186-194: the completion's content is stripped, the
\* seven characters of a leading opening marker and the three of a trailing
\* closing marker are cut, and the rest is stripped again.
generated_sql(content) ==
    LET stripped == strip(content)
        opened == IF startswith(stripped, SqlFence) THEN SliceFrom(stripped, 7)
                  ELSE stripped
        closed == IF endswith(opened, Fence) THEN SliceBefore(opened, 3) ELSE opened
    IN strip(closed)

\* SQL texts a completion may wrap, and the whitespace that may separate
\* the fence markers from the SQL or surround the completion.
SqlTexts == {<<"S">>, <<"S", " ", "1">>, <<"1", "\n", "S">>}

Gaps == {<<>>, <<"\n">>, <<" ">>, <<"\n", " ">>}

\* The opening marker, then s, then the closing marker.
Fenced(lead, open, s, close, trail) ==
    lead \o SqlFence \o open \o s \o close \o Fence \o trail

(***************************************************************************)
(* Result shaping: ResultHumanizer._prepare_result_for_gpt                 *)
(* A table is its column names and its rows; a row is known by its         *)
(* position (the RangeIndex label DataFrame.from_records gives it).        *)
(***************************************************************************)
\* self.max_rows_for_full_context
max_rows_for_full_context == 100

Min(a, b) == IF a <= b THEN a ELSE b

Max(a, b) == IF a >= b THEN a ELSE b

Range(seq) == {seq[i] : i \in DOMAIN seq}

\* A result table with the given columns and n rows.
Frame(columns, n) == [columns |-> columns, index |-> [i \in 1..n |-> i]]

\* The dtype of a result column as the tests of lines 73-85 see it:
\* is_numeric_dtype, is_datetime64_dtype, is_string_dtype, or none of them.
Dtype(c) ==
    IF c = "Activity Id" THEN "string"
    ELSE IF c = "Progress" THEN "numeric"
    ELSE IF c = "Start" THEN "datetime"
    ELSE "other"

\* df.head(k)
head(rows, k) == SubSeq(rows, 1, Min(k, Len(rows)))

\* df.tail(k)
tail(rows, k) == SubSeq(rows, Max(Len(rows) - k, 0) + 1, Len(rows))

\* middle_df with the last rows left in: df.iloc[10:]
middle_df_through_end(rows) == SubSeq(rows, 11, Len(rows))

\* df.iloc[10:-5]
middle_df(rows) == SubSeq(rows, 11, Len(rows) - 5)

\* One draw of DataFrame.sample: the position of the first row drawn and
\* the distance to the next; NoDraw when nothing is sampled.
NoDraw == [start |-> 0, step |-> 0]

SampleSteps == {1, 7}

Draws(rows) == [start : 0..(Len(rows) - 1), step : SampleSteps]

\* middle_df.sample(k): k rows drawn without replacement, in drawn order.
sample(rows, k, draw) ==
    [i \in 1..k |-> rows[((draw.start + (i - 1) * draw.step) % Len(rows)) + 1]]

\* .replace({np.nan: None}).to_dict(orient="records") and the str() of
\* values that are not JSON scalars: one dict per row, in row order.
to_records(rows) == [i \in DOMAIN rows |-> [row |-> rows[i]]]

\* The values of full_data and of the sections of sample_data.
None == [kind |-> "None", text |-> "", rows |-> <<>>]

Text(text, rows) == [kind |-> "str", text |-> text, rows |-> rows]

Records(rows) == [kind |-> "list", text |-> "", rows |-> to_records(rows)]

\* The statistics one column gets (lines 73-93): the names of its entries.
column_stats(dtype) ==
    IF dtype = "numeric" THEN [keys |-> {"min", "max", "mean", "median"}]
    ELSE IF dtype = "datetime" THEN [keys |-> {"min", "max"}]
    ELSE [keys |-> {"unique_values", "most_common"}]

\* {"note": "Could not calculate statistics"}
Note == [keys |-> {"note"}]

\* The statistics loop giving up on the first column that fails.
summary_statistics_aborting(columns, failing) ==
    IF Range(columns) \cap failing # {}
    THEN [c \in {} |-> Note]
    ELSE [c \in {c \in Range(columns) : Dtype(c) # "other"} |-> column_stats(Dtype(c))]

\* Lines 70-99: the statistics of every column; failing are the columns
\* whose computation raises.
summary_statistics(columns, failing) ==
    [c \in {c \in Range(columns) : c \in failing \/ Dtype(c) # "other"} |->
        IF c \in failing THEN Note ELSE column_stats(Dtype(c))]

\* "row_count < self.max_rows_for_full_context"
is_full_context_below(row_count) == row_count < max_rows_for_full_context

\* "row_count <= self.max_rows_for_full_context" (line 102)
is_full_context(row_count) == row_count <= max_rows_for_full_context

\* Lines 160-169: what the outermost handler returns.
minimal_result(df) ==
    [row_count |-> Len(df.index), column_count |-> Len(df.columns),
     columns |-> df.columns,
     full_data |-> Text("Error preparing data for analysis.", <<>>)]

\* Lines 53-61.
initial_result(df) ==
    [row_count |-> Len(df.index), column_count |-> Len(df.columns),
     columns |-> df.columns, is_summarized |-> FALSE,
     summary_stats |-> [c \in {} |-> Note],
     sample_data |-> [kind |-> "None"], full_data |-> None]

\* Lines 68-158: statistics, then every row or a sample.  raising are the
\* steps of the data payload that raise: "records" (line 107),
\* "records_text" (str(df.head(10)) in its handler, line 117), "sample"
\* (lines 127-143) and "sample_text" (its handler, lines 154-155); an
\* exception raised inside a handler reaches the outermost one.
shape_rows(df, failing, raising, draw) ==
    LET result == [initial_result(df) EXCEPT
                     !.summary_stats = summary_statistics(df.columns, failing)]
    IN IF is_full_context(Len(df.index))
       THEN IF "records" \notin raising
            THEN [result EXCEPT !.full_data = Records(df.index)]
            ELSE IF "records_text" \notin raising
            THEN [result EXCEPT !.full_data = Text("df.head(10)", head(df.index, 10))]
            ELSE minimal_result(df)
       ELSE IF "sample" \notin raising
            THEN LET middle == middle_df(df.index)
                     sample_size == Min(5, Len(middle))
                 IN [result EXCEPT
                       !.is_summarized = TRUE,
                       !.sample_data =
                          [kind |-> "dict",
                           first_rows |-> Records(head(df.index, 10)),
                           middle_sample |->
                              IF Len(middle) > 0
                              THEN Records(sample(middle, sample_size, draw))
                              ELSE Records(<<>>),
                           last_rows |-> Records(tail(df.index, 5))]]
            ELSE IF "sample_text" \notin raising
            THEN [result EXCEPT
                    !.is_summarized = TRUE,
                    !.sample_data =
                       [kind |-> "dict",
                        first_rows |-> Text("df.head(10)", head(df.index, 10)),
                        last_rows |-> Text("df.tail(5)", tail(df.index, 5))]]
            ELSE minimal_result(df)

\* _prepare_result_for_gpt without the early return for an empty table.
prepare_result_without_empty_case(df, failing, raising, draw) ==
    shape_rows(df, failing, raising, draw)

\* ResultHumanizer._prepare_result_for_gpt
prepare_result_for_gpt(df, failing, raising, draw) ==
    IF Len(df.index) = 0
    THEN [initial_result(df) EXCEPT !.full_data = Text("No data found.", <<>>)]
    ELSE shape_rows(df, failing, raising, draw)

(***************************************************************************)
(* Numeric statistics (lines 73-79): pandas min, max, mean and median skip *)
(* NaN and give NaN for a column without a value; float() of a value is    *)
(* kept as a reduced fraction.                                             *)
(***************************************************************************)
NaN == [null |-> TRUE, v |-> 0]

Num(x) == [null |-> FALSE, v |-> x]

\* "... if not pd.isna(...) else None"
NoStat == [null |-> TRUE, num |-> 0, den |-> 1]

RECURSIVE Gcd(_, _)
Gcd(a, b) == IF b = 0 THEN a ELSE Gcd(b, a % b)

Ratio(n, d) == [null |-> FALSE, num |-> n \div Gcd(n, d), den |-> d \div Gcd(n, d)]

\* The values the reductions see (skipna=True).
dropna(values) == SelectSeq(values, LAMBDA c : ~c.null)

RECURSIVE Sum(_)
Sum(xs) == IF xs = <<>> THEN 0 ELSE Head(xs).v + Sum(Tail(xs))

RECURSIVE Lowest(_)
Lowest(xs) == IF Len(xs) = 1 THEN xs[1].v ELSE Min(Head(xs).v, Lowest(Tail(xs)))

RECURSIVE Highest(_)
Highest(xs) == IF Len(xs) = 1 THEN xs[1].v ELSE Max(Head(xs).v, Highest(Tail(xs)))

RECURSIVE Insert(_, _)
Insert(x, sorted) ==
    IF sorted = <<>> \/ x.v <= Head(sorted).v THEN <<x>> \o sorted
    ELSE <<Head(sorted)>> \o Insert(x, Tail(sorted))

RECURSIVE Sorted(_)
Sorted(xs) == IF xs = <<>> THEN <<>> ELSE Insert(Head(xs), Sorted(Tail(xs)))

\* Series.median of the non-null values: the middle one, or the mean of
\* the two middle ones.
Median(xs) ==
    LET s == Sorted(xs)
        k == Len(xs)
    IN IF k % 2 = 1 THEN Ratio(s[(k + 1) \div 2].v, 1)
       ELSE Ratio(s[k \div 2].v + s[k \div 2 + 1].v, 2)

\* The statistics with NaN counted as a value 0 in the mean.
numeric_stats_counting_nulls(values) ==
    LET xs == dropna(values) IN
    IF xs = <<>>
    THEN [min |-> NoStat, max |-> NoStat, mean |-> NoStat, median |-> NoStat]
    ELSE [min |-> Ratio(Lowest(xs), 1), max |-> Ratio(Highest(xs), 1),
          mean |-> Ratio(Sum(xs), Len(values)), median |-> Median(xs)]

\* Lines 74-79 for one numeric column.
numeric_stats(values) ==
    LET xs == dropna(values) IN
    IF xs = <<>>
    THEN [min |-> NoStat, max |-> NoStat, mean |-> NoStat, median |-> NoStat]
    ELSE [min |-> Ratio(Lowest(xs), 1), max |-> Ratio(Highest(xs), 1),
          mean |-> Ratio(Sum(xs), Len(xs)), median |-> Median(xs)]

(***************************************************************************)
(* The context text: ResultHumanizer._format_query_context, with every     *)
(* text measured by its length (s[:n] is Min(len, n), + is +).             *)
(***************************************************************************)
\* "if len(context) > 8000" and "context[:8000]"
ContextCeiling == 8000

\* max_data_size
max_data_size == 2000

\* len("\n\n[Content truncated due to size limitations]")
TruncationMarker == 45

\* The number of characters of str(n).
RECURSIVE Digits(_)
Digits(n) == IF n < 10 THEN 1 ELSE 1 + Digits(n \div 10)

\* Lines 277-281: the context the except clause builds; nothing limits it.
simplified_context(nl_query, sql_query, result_data) ==
    (21 + nl_query) + (22 + sql_query)
      + (68 + Digits(result_data.row_count) + result_data.columns) + 80

\* _format_query_context without the final size check.
format_query_context_unchecked(nl_query, sql_query, result_data) ==
    (21 + nl_query) + (22 + sql_query) + 16
      + (15 + Digits(result_data.row_count)) + (13 + result_data.columns)
      + (IF result_data.summary_stats > 0 THEN 21 + result_data.summary_stats + 1
         ELSE 0)
      + (IF result_data.is_summarized
         THEN 62 + 12 + Min(result_data.first_rows, max_data_size \div 2) + 2
                 + 11 + Min(result_data.last_rows, max_data_size \div 2)
         ELSE IF result_data.full_data = 0 THEN 0
         ELSE IF result_data.full_is_str
         THEN 6 + Min(result_data.full_data, max_data_size)
         ELSE 44 + Min(result_data.full_data, max_data_size))

\* _format_query_context whose except clause fails as well.
format_query_context_unguarded(nl_query, sql_query, result_data) ==
    LET context == format_query_context_unchecked(nl_query, sql_query, result_data)
    IN IF ~result_data.complete
       THEN [len |-> 0, how |-> "raised"]
       ELSE IF context > ContextCeiling
       THEN [len |-> ContextCeiling + TruncationMarker, how |-> "truncated"]
       ELSE [len |-> context, how |-> "whole"]

\* _format_query_context: the length of the returned text and how it was
\* made.  result_data gives the lengths of the joined column names, of the
\* statistics lines and of the serialized data; complete is false for the
\* minimal result of lines 164-169, whose missing "summary_stats" key takes
\* the function into its except clause.
format_query_context(nl_query, sql_query, result_data) ==
    LET context == format_query_context_unchecked(nl_query, sql_query, result_data)
    IN IF ~result_data.complete
       THEN [len |-> simplified_context(nl_query, sql_query, result_data),
             how |-> "simplified"]
       ELSE IF context > ContextCeiling
       THEN [len |-> ContextCeiling + TruncationMarker, how |-> "truncated"]
       ELSE [len |-> context, how |-> "whole"]

\* No context was built.
NoContext == [len |-> 0, how |-> "none"]

\* humanize_result from the prepared result on (lines 305-379): the context
\* is formatted and sent as the user message; an exception leaving
\* _format_query_context would end in the except clause of line 376, before
\* any request.
humanize_result_context(creds, nl_query, sql_query, result_data, llm) ==
    IF ~creds
    THEN [ok |-> FALSE, val |-> "credentials are missing", requests |-> 0,
          context |-> NoContext]
    ELSE LET query_context == format_query_context(nl_query, sql_query, result_data)
         IN IF query_context.how = "raised"
            THEN [ok |-> FALSE, val |-> "Error generating explanation",
                  requests |-> 0, context |-> NoContext]
            ELSE [ok |-> explanation(llm).ok, val |-> explanation(llm).val,
                  requests |-> explanation(llm).requests, context |-> query_context]

(***************************************************************************)
(* State                                                                   *)
(***************************************************************************)
VARIABLES
    nl_query,          \* st.session_state.nl_query
    sql_query,         \* st.session_state.sql_query
    query_result,      \* st.session_state.query_result
    generate_summary,  \* st.session_state.generate_summary
    summary,           \* st.session_state.summary
    schema_info,       \* st.session_state.schema_info (NoSchema when absent)
    query_generator,   \* st.session_state.query_generator and its self.schema_info
    conn,              \* st.session_state.db_connection.conn
    credentials,       \* api_key and api_endpoint are both set
    dbUp,              \* the database server is reachable
    dbTables,          \* the base tables the database holds
    nl_input,          \* the value of the question text area
    advanced_mode,     \* the value of the "Enable SQL editing" checkbox
    page,              \* the widgets the last rerun rendered
    pc,                \* where the running script is ("idle": no rerun in progress)
    run,               \* what the current (or last) rerun did so far
    gwLog,             \* the Gateway calls made by the last step
    load,              \* the last call of _load_schema_info
    call,              \* the function call examined on its own: name and arguments
    result             \* what that call returned

vars == <<nl_query, sql_query, query_result, generate_summary, summary, schema_info,
          query_generator, conn, credentials, dbUp, dbTables, nl_input, advanced_mode,
          page, pc, run, gwLog, load, call, result>>

\* The state of the page script.
script == <<nl_query, sql_query, query_result, generate_summary, summary, schema_info,
            query_generator, conn, credentials, dbUp, dbTables, nl_input, advanced_mode,
            page, pc, run, gwLog, load>>

\* A function call examined on its own and its return value.
functions == <<call, result>>

session == <<nl_query, sql_query, query_result, generate_summary, summary>>

environment == <<credentials, dbUp, dbTables>>

widgets == <<nl_input, advanced_mode>>

\* No widget below the example buttons has been rendered yet.
EmptyPage == [summarize_btn |-> FALSE, advanced_chk |-> FALSE,
              execute_edited_btn |-> FALSE, editor |-> ""]

\* The record of a rerun that starts on the interaction click.
NewRun(click, edited) ==
    [click |-> click, edited |-> edited, aborted |-> FALSE,
     tests |-> 0, generates |-> 0, requests |-> 0, executes |-> 0, humanizes |-> 0,
     generated |-> "none", shown |-> "", executed |-> "", outcome |-> "none",
     stored |-> FALSE, errors |-> {}]

NoLoad == [called |-> FALSE, forced |-> FALSE, outcome |-> "none", reachable |-> FALSE,
           queried |-> FALSE, enumerated |-> {}, cached |-> FALSE]

\* No function is examined on its own.
NoCall == [fn |-> "none"]

\* The record of one _load_schema_info call with result r.
LoadRecord(forced, up, before, r) ==
    [called |-> TRUE, forced |-> forced, outcome |-> r.outcome, reachable |-> up,
     queried |-> r.queried, enumerated |-> r.enumerated, cached |-> before.present]

\* nl_sql_page.py:8-23, DatabaseConnection.__init__ (conn = None); nothing is
\* cached and the page has not been rendered.
Init ==
    /\ nl_query = ""
    /\ sql_query = ""
    /\ query_result = NoTable
    /\ generate_summary = FALSE
    /\ summary = ""
    /\ schema_info = NoSchema
    /\ query_generator = NoGenerator
    /\ conn = "None"
    /\ credentials \in BOOLEAN
    /\ dbUp \in BOOLEAN
    /\ dbTables \in Catalogs
    /\ nl_input = ""
    /\ advanced_mode = FALSE
    /\ page = EmptyPage
    /\ pc = "idle"
    /\ run = NewRun("none", "")
    /\ gwLog = <<>>
    /\ load = NoLoad
    /\ call = NoCall
    /\ result = NoCall

(***************************************************************************)
(* The environment: the server goes away or comes back, an open connection *)
(* is dropped, the catalogue changes.                                      *)
(***************************************************************************)
ServerChanges ==
    /\ pc \in {"idle", "page"}
    /\ dbUp' = ~dbUp
    /\ UNCHANGED <<session, schema_info, query_generator, conn, credentials, dbTables,
                   widgets, page, pc, run, gwLog, load>>
    /\ UNCHANGED functions

ConnectionDrops ==
    /\ pc = "idle"
    /\ conn = "open"
    /\ conn' = "stale"
    /\ UNCHANGED <<session, schema_info, query_generator, environment, widgets, page,
                   pc, run, gwLog, load>>
    /\ UNCHANGED functions

CatalogChanges ==
    /\ pc = "idle"
    /\ \E cat \in Catalogs \ {dbTables} : dbTables' = cat
    /\ UNCHANGED <<session, schema_info, query_generator, conn, credentials, dbUp,
                   widgets, page, pc, run, gwLog, load>>
    /\ UNCHANGED functions

(***************************************************************************)
(* User interactions: each one starts a rerun of the script (pc = "main"). *)
(***************************************************************************)
StartRun(click, edited) ==
    /\ pc = "idle"
    /\ pc' = "main"
    /\ run' = NewRun(click, edited)
    /\ page' = EmptyPage
    /\ gwLog' = <<>>
    /\ load' = NoLoad

\* The user edits the question text area.
EditQuestion ==
    /\ StartRun("none", "")
    /\ \E q \in (Questions \cup {""}) \ {nl_input} : nl_input' = q
    /\ UNCHANGED <<session, schema_info, query_generator, conn, environment,
                   advanced_mode>>
    /\ UNCHANGED functions

\* One of the example buttons (nl_sql_page.py:61-75).
ClickExample ==
    /\ StartRun("example", "")
    /\ UNCHANGED <<session, schema_info, query_generator, conn, environment, widgets>>
    /\ UNCHANGED functions

\* "Generate SQL and Execute" (nl_sql_page.py:78).
ClickGenerate ==
    /\ StartRun("generate", "")
    /\ UNCHANGED <<session, schema_info, query_generator, conn, environment, widgets>>
    /\ UNCHANGED functions

\* "Summarize Results": the on_click callback set_generate_summary runs
\* before the rerun (nl_sql_page.py:26-27, 132, 231).
ClickSummarize ==
    /\ page.summarize_btn
    /\ StartRun("summarize", "")
    /\ generate_summary' = TRUE
    /\ UNCHANGED <<nl_query, sql_query, query_result, summary, schema_info,
                   query_generator, conn, environment, widgets>>
    /\ UNCHANGED functions

\* The "Enable SQL editing" checkbox (nl_sql_page.py:176).
ToggleAdvanced ==
    /\ page.advanced_chk
    /\ StartRun("none", "")
    /\ advanced_mode' = ~advanced_mode
    /\ UNCHANGED <<session, schema_info, query_generator, conn, environment, nl_input>>
    /\ UNCHANGED functions

\* "Execute Edited SQL" with the text the editor holds (nl_sql_page.py:184-186).
ClickExecuteEdited ==
    /\ page.execute_edited_btn
    /\ \E edited \in Sqls : StartRun("execute_edited", edited)
    /\ UNCHANGED <<session, schema_info, query_generator, conn, environment, widgets>>
    /\ UNCHANGED functions

(***************************************************************************)
(* The script: app.main, then nl_sql_page, then the explorer tab.          *)
(***************************************************************************)
\* app.main up to the tabs (app.py:74-109): one test request to the LLM
\* endpoint, then print_database_analysis runs, and stores its schema in the
\* session, whenever the connection is up or can be brought up.
MainConnect(tablesOk, colFail, relsOk) ==
    /\ pc = "main"
    /\   LET chk == is_connected(conn, dbUp)
             cn == connect(dbUp)
             c1 == IF chk.result THEN chk.conn ELSE cn.conn
             pda == print_database_analysis(c1, dbUp, dbTables, tablesOk, colFail, relsOk)
         IN IF chk.result \/ cn.result
            THEN /\ schema_info' = pda.schema
                 /\ conn' = pda.conn
                 /\ gwLog' = pda.log
            ELSE /\ schema_info' = schema_info
                 /\ conn' = c1
                 /\ gwLog' = <<>>
    /\ run' = [run EXCEPT !.tests = @ + 1]
    /\ pc' = "page"
    /\ UNCHANGED <<session, query_generator, environment, widgets, page, load>>
    /\ UNCHANGED functions

\* nl_sql_page.py:37, get_query_generator: the generator is built on first
\* use; an exception of its constructor ends the script run.
GetQueryGenerator(tablesOk, colFail, relsOk) ==
    /\ pc = "page"
    /\ IF query_generator.present
       THEN /\ pc' = IF run.click = "example" THEN "example" ELSE "submit"
            /\ gwLog' = <<>>
            /\ UNCHANGED <<schema_info, query_generator, conn, run, load>>
       ELSE   LET r == load_schema_info(schema_info, conn, dbUp, dbTables,
                                        tablesOk, colFail, relsOk)
              IN /\ load' = LoadRecord(FALSE, dbUp, schema_info, r)
                 /\ schema_info' = r.session
                 /\ conn' = r.conn
                 /\ gwLog' = r.log
                 /\ IF r.outcome = "AttributeError"
                    THEN /\ pc' = "idle"
                         /\ run' = [run EXCEPT !.aborted = TRUE]
                         /\ UNCHANGED query_generator
                    ELSE /\ pc' = IF run.click = "example" THEN "example" ELSE "submit"
                         /\ query_generator' = [present |-> TRUE, schema_info |-> r.schema]
                         /\ UNCHANGED run
    /\ UNCHANGED <<session, environment, widgets, page>>
    /\ UNCHANGED functions

\* nl_sql_page.py:61-75: an example button resets the summary state and
\* calls st.rerun(); the assignment to the local nl_query is lost.
ExampleButton ==
    /\ pc = "example"
    /\ generate_summary' = FALSE
    /\ summary' = ""
    /\ pc' = "main"
    /\ run' = NewRun("none", "")
    /\ gwLog' = <<>>
    /\ load' = NoLoad
    /\ UNCHANGED <<nl_query, sql_query, query_result, schema_info, query_generator,
                   conn, environment, widgets, page>>
    /\ UNCHANGED functions

\* Submit going on to the execution whatever generate_sql_query returned.
SubmitIgnoringFailure ==
    /\ pc = "submit"
    /\ gwLog' = <<>>
    /\ IF run.click = "generate" /\ nl_input # ""
       THEN \E llm \in LlmOutcomes :
              LET g == generate_sql_query(credentials, nl_input, llm) IN
              /\ generate_summary' = FALSE
              /\ summary' = ""
              /\ nl_query' = nl_input
              /\ sql_query' = g.val
              /\ run' = [run EXCEPT !.generates = @ + 1,
                                    !.requests = @ + g.requests,
                                    !.generated = IF g.ok THEN "ok" ELSE "failed",
                                    !.shown = g.val]
              /\ pc' = "execute"
       ELSE /\ pc' = "summarize"
            /\ UNCHANGED <<session, run>>
    /\ UNCHANGED <<query_result, schema_info, query_generator, conn, environment,
                   widgets, page, load>>
    /\ UNCHANGED functions

\* nl_sql_page.py:78-94 and 145-146: the submission resets the summary
\* state and asks the generator for SQL.
Submit ==
    /\ pc = "submit"
    /\ gwLog' = <<>>
    /\ IF run.click = "generate" /\ nl_input # ""
       THEN \E llm \in LlmOutcomes :
              LET g == generate_sql_query(credentials, nl_input, llm) IN
              /\ generate_summary' = FALSE
              /\ summary' = ""
              /\ IF g.ok
                 THEN /\ nl_query' = nl_input
                      /\ sql_query' = g.val
                      /\ run' = [run EXCEPT !.generates = @ + 1,
                                            !.requests = @ + g.requests,
                                            !.generated = "ok",
                                            !.shown = g.val]
                      /\ pc' = "execute"
                 ELSE /\ run' = [run EXCEPT !.generates = @ + 1,
                                            !.requests = @ + g.requests,
                                            !.generated = "failed",
                                            !.errors = @ \cup {"Failed to generate SQL"}]
                      /\ pc' = "summarize"
                      /\ UNCHANGED <<nl_query, sql_query>>
       ELSE /\ pc' = "summarize"
            /\ UNCHANGED <<session, run>>
    /\ UNCHANGED <<query_result, schema_info, query_generator, conn, environment,
                   widgets, page, load>>
    /\ UNCHANGED functions

\* ShowExecution offering the summarize button whenever a table with rows is
\* stored, whether or not this execution produced it.
ShowExecutionOfferingStoredTable(x) ==
    /\ conn' = x.conn
    /\ gwLog' = <<x.call>>
    /\ IF ~x.raised /\ x.ok /\ x.val.kind = "DataFrame"
       THEN /\ query_result' = x.val
            /\ page' = [page EXCEPT !.summarize_btn = x.val.rows > 0]
       ELSE /\ query_result' = query_result
            /\ page' = [page EXCEPT !.summarize_btn =
                                      query_result # NoTable /\ query_result.rows > 0]

\* The common tail of both execution branches (nl_sql_page.py:100-144 and
\* 199-242): a DataFrame is stored, and offers the summarize button when it
\* has rows; anything else is only reported.
ShowExecution(x) ==
    /\ conn' = x.conn
    /\ gwLog' = <<x.call>>
    /\ IF ~x.raised /\ x.ok /\ x.val.kind = "DataFrame"
       THEN /\ query_result' = x.val
            /\ page' = [page EXCEPT !.summarize_btn = x.val.rows > 0]
       ELSE UNCHANGED <<query_result, page>>

\* What a rerun records about its execute_query call.
Executed(r, sql, x) ==
    [r EXCEPT !.executes = @ + 1,
              !.executed = sql,
              !.outcome = IF x.raised THEN "raised"
                          ELSE IF ~x.ok THEN "error"
                          ELSE IF x.val.kind = "DataFrame" THEN "table" ELSE "no rows",
              !.stored = ~x.raised /\ x.ok /\ x.val.kind = "DataFrame",
              !.errors = IF x.raised \/ ~x.ok
                         THEN @ \cup {"Error executing query"} ELSE @]

\* Execute with one automatic retry of a failed statement.
ExecuteWithRetry ==
    /\ pc = "execute"
    /\ \E drv \in DriverOutcomes :
         LET x == execute_query(conn, dbUp, sql_query, drv) IN
         /\ ShowExecution(x)
         /\ run' = IF x.ok THEN Executed(run, sql_query, x)
                   ELSE Executed(Executed(run, sql_query, x), sql_query, x)
    /\ pc' = "summarize"
    /\ UNCHANGED <<nl_query, sql_query, generate_summary, summary, schema_info,
                   query_generator, environment, widgets, load>>
    /\ UNCHANGED functions

\* nl_sql_page.py:95-144: the generated SQL is executed, once.
Execute ==
    /\ pc = "execute"
    /\ \E drv \in DriverOutcomes :
         LET x == execute_query(conn, dbUp, sql_query, drv) IN
         /\ ShowExecution(x)
         /\ run' = Executed(run, sql_query, x)
    /\ pc' = "summarize"
    /\ UNCHANGED <<nl_query, sql_query, generate_summary, summary, schema_info,
                   query_generator, environment, widgets, load>>
    /\ UNCHANGED functions

\* Summarize dropping the stored table when humanize_result fails.
SummarizeDiscardingTable ==
    /\ pc = "summarize"
    /\ gwLog' = <<>>
    /\ IF generate_summary /\ query_result # NoTable
       THEN \E llm \in LlmOutcomes :
              LET h == humanize_result(credentials, nl_query, sql_query,
                                       query_result, llm) IN
              /\ generate_summary' = FALSE
              /\ summary' = IF h.ok THEN h.val ELSE "Error"
              /\ query_result' = IF h.ok THEN query_result ELSE NoTable
              /\ run' = [run EXCEPT !.humanizes = @ + 1,
                                    !.requests = @ + h.requests,
                                    !.errors = IF h.ok THEN @ ELSE @ \cup {h.val}]
       ELSE UNCHANGED <<generate_summary, summary, run, query_result>>
    /\ pc' = "advanced"
    /\ UNCHANGED <<nl_query, sql_query, schema_info, query_generator,
                   conn, environment, widgets, page, load>>
    /\ UNCHANGED functions

\* Summarize without the reset of line 150.
SummarizeKeepingFlag ==
    /\ pc = "summarize"
    /\ gwLog' = <<>>
    /\ IF generate_summary /\ query_result # NoTable
       THEN \E llm \in LlmOutcomes :
              LET h == humanize_result(credentials, nl_query, sql_query,
                                       query_result, llm) IN
              /\ generate_summary' = generate_summary
              /\ summary' = IF h.ok THEN h.val ELSE "Error"
              /\ run' = [run EXCEPT !.humanizes = @ + 1,
                                    !.requests = @ + h.requests,
                                    !.errors = IF h.ok THEN @ ELSE @ \cup {h.val}]
       ELSE UNCHANGED <<generate_summary, summary, run>>
    /\ pc' = "advanced"
    /\ UNCHANGED <<nl_query, sql_query, query_result, schema_info, query_generator,
                   conn, environment, widgets, page, load>>
    /\ UNCHANGED functions

\* nl_sql_page.py:148-171: the flag set by the button's callback triggers
\* one humanize_result call on the stored turn.
Summarize ==
    /\ pc = "summarize"
    /\ gwLog' = <<>>
    /\ IF generate_summary /\ query_result # NoTable
       THEN \E llm \in LlmOutcomes :
              LET h == humanize_result(credentials, nl_query, sql_query,
                                       query_result, llm) IN
              /\ generate_summary' = FALSE
              /\ summary' = IF h.ok THEN h.val ELSE "Error"
              /\ run' = [run EXCEPT !.humanizes = @ + 1,
                                    !.requests = @ + h.requests,
                                    !.errors = IF h.ok THEN @ ELSE @ \cup {h.val}]
       ELSE UNCHANGED <<generate_summary, summary, run>>
    /\ pc' = "advanced"
    /\ UNCHANGED <<nl_query, sql_query, query_result, schema_info, query_generator,
                   conn, environment, widgets, page, load>>
    /\ UNCHANGED functions

\* nl_sql_page.py:173-186 and 243-244: with a question in the text area the
\* checkbox is shown; with the checkbox ticked the generator is called
\* ("Generate SQL first") and, on success, the editor and its button are
\* shown.  A checkbox that is not rendered loses its value.
Advanced ==
    /\ pc = "advanced"
    /\ gwLog' = <<>>
    /\ IF nl_input = ""
       THEN /\ advanced_mode' = FALSE
            /\ pc' = "explorer"
            /\ UNCHANGED <<page, run>>
       ELSE IF ~advanced_mode
       THEN /\ page' = [page EXCEPT !.advanced_chk = TRUE]
            /\ pc' = "explorer"
            /\ UNCHANGED <<advanced_mode, run>>
       ELSE \E llm \in LlmOutcomes :
              LET g == generate_sql_query(credentials, nl_input, llm) IN
              /\ run' = [run EXCEPT !.generates = @ + 1,
                                    !.requests = @ + g.requests,
                                    !.errors = IF g.ok THEN @
                                               ELSE @ \cup {"Failed to generate initial SQL"}]
              /\ page' = [page EXCEPT !.advanced_chk = TRUE,
                                      !.execute_edited_btn = g.ok,
                                      !.editor = IF g.ok THEN g.val ELSE ""]
              /\ pc' = IF g.ok /\ run.click = "execute_edited"
                       THEN "execute_edited" ELSE "explorer"
              /\ UNCHANGED advanced_mode
    /\ UNCHANGED <<session, schema_info, query_generator, conn, environment, nl_input,
                   load>>
    /\ UNCHANGED functions

\* ExecuteEdited running the generated SQL in place of the editor's text.
ExecuteEditedGenerated ==
    /\ pc = "execute_edited"
    /\ generate_summary' = FALSE
    /\ summary' = ""
    /\ \E drv \in DriverOutcomes :
         LET x == execute_query(conn, dbUp, page.editor, drv) IN
         /\ ShowExecution(x)
         /\ run' = Executed(run, page.editor, x)
         /\ IF x.raised
            THEN UNCHANGED <<nl_query, sql_query>>
            ELSE /\ nl_query' = nl_input
                 /\ sql_query' = page.editor
    /\ pc' = "explorer"
    /\ UNCHANGED <<schema_info, query_generator, environment, widgets, load>>
    /\ UNCHANGED functions

\* nl_sql_page.py:186-242: the edited SQL is executed and becomes the
\* session's SQL.
ExecuteEdited ==
    /\ pc = "execute_edited"
    /\ generate_summary' = FALSE
    /\ summary' = ""
    /\ \E drv \in DriverOutcomes :
         LET x == execute_query(conn, dbUp, run.edited, drv) IN
         /\ ShowExecution(x)
         /\ run' = Executed(run, run.edited, x)
         /\ IF x.raised
            THEN UNCHANGED <<nl_query, sql_query>>
            ELSE /\ nl_query' = nl_input
                 /\ sql_query' = run.edited
    /\ pc' = "explorer"
    /\ UNCHANGED <<schema_info, query_generator, environment, widgets, load>>
    /\ UNCHANGED functions

\* app.py:120-164, the "Database Explorer" tab, which every rerun executes:
\* the tables, then for the selected (first) table its columns and a
\* "SELECT TOP 5" sample, then the relationships.
Explorer(tablesOk, colOk, relsOk) ==
    /\ pc = "explorer"
    /\ \E drv \in DriverOutcomes :
         LET tb == get_tables(conn, dbUp, dbTables, tablesOk)
             sel == TableList(tb.val)
             sc == get_table_schema(tb.conn, dbUp, sel[1], colOk)
             x == execute_query(sc.conn, dbUp, "SELECT TOP 5", drv)
             c3 == IF sel = <<>> THEN tb.conn
                   ELSE IF sc.val = <<>> THEN sc.conn ELSE x.conn
             rel == get_table_relationships(c3, dbUp, dbTables, relsOk)
         IN /\ conn' = IF sel = <<>> THEN tb.conn ELSE rel.conn
            /\ gwLog' = IF sel = <<>> THEN <<tb.call>>
                        ELSE IF sc.val = <<>> THEN <<tb.call, sc.call, rel.call>>
                        ELSE <<tb.call, sc.call, x.call, rel.call>>
    /\ pc' = "idle"
    /\ UNCHANGED <<session, schema_info, query_generator, environment, widgets, page,
                   run, load>>
    /\ UNCHANGED functions

\* SQLQueryGenerator.refresh_schema: the cached value is deleted, then
\* loaded again; if the load raises, self.schema_info keeps its value.
refresh_schema(tablesOk, colFail, relsOk) ==
    /\ pc = "idle"
    /\ query_generator.present
    /\   LET r == load_schema_info(NoSchema, conn, dbUp, dbTables,
                                   tablesOk, colFail, relsOk)
         IN /\ load' = LoadRecord(TRUE, dbUp, schema_info, r)
            /\ schema_info' = r.session
            /\ conn' = r.conn
            /\ gwLog' = r.log
            /\ query_generator' =
                 IF r.outcome = "AttributeError" THEN query_generator
                 ELSE [present |-> TRUE, schema_info |-> r.schema]
    /\ UNCHANGED <<session, environment, widgets, page, pc, run>>
    /\ UNCHANGED functions

\* The page over a database whose catalogue stays as it is and whose schema
\* queries succeed whenever the connection is up.
Next ==
    \/ ServerChanges
    \/ ConnectionDrops
    \/ EditQuestion
    \/ ClickExample
    \/ ClickGenerate
    \/ ClickSummarize
    \/ ToggleAdvanced
    \/ ClickExecuteEdited
    \/ MainConnect(TRUE, {}, TRUE)
    \/ GetQueryGenerator(TRUE, {}, TRUE)
    \/ ExampleButton
    \/ Submit
    \/ Execute
    \/ Summarize
    \/ Advanced
    \/ ExecuteEdited
    \/ Explorer(TRUE, TRUE, TRUE)
    \/ refresh_schema(TRUE, {}, TRUE)

InitPage == Init /\ dbTables = Tables

Spec == InitPage /\ [][Next]_vars

\* The schema queries that fail while a schema is built: none, the table
\* enumeration, the column query of one table, or the foreign-key query.
SchemaFaults ==
    {[tablesOk |-> TRUE, colFail |-> {}, relsOk |-> TRUE],
     [tablesOk |-> FALSE, colFail |-> {}, relsOk |-> TRUE],
     [tablesOk |-> TRUE, colFail |-> {"wbs"}, relsOk |-> TRUE],
     [tablesOk |-> TRUE, colFail |-> {}, relsOk |-> FALSE]}

\* The schema catalogue: the catalogue changes and single schema queries
\* fail, while the question text area stays empty.
NextCatalog ==
    \/ ServerChanges
    \/ ConnectionDrops
    \/ CatalogChanges
    \/ ClickExample
    \/ ClickGenerate
    \/ \E f \in SchemaFaults : MainConnect(f.tablesOk, f.colFail, f.relsOk)
    \/ \E f \in SchemaFaults : GetQueryGenerator(f.tablesOk, f.colFail, f.relsOk)
    \/ ExampleButton
    \/ Submit
    \/ Summarize
    \/ Advanced
    \/ Explorer(TRUE, TRUE, TRUE)
    \/ \E f \in SchemaFaults : refresh_schema(f.tablesOk, f.colFail, f.relsOk)

InitCatalog == Init /\ credentials = TRUE

SpecCatalog == InitCatalog /\ [][NextCatalog]_vars

(***************************************************************************)
(* The functions examined on their own: each action calls one function,   *)
(* once, with arguments drawn from its input sets and keeps what it        *)
(* returned.                                                               *)
(***************************************************************************)
\* Largest length of a question, of an SQL text and of the statistics lines.
MaxTextLen == 9000

\* Largest number of rows of a shaped table.
MaxTableRows == 102

\* Largest number of values of a column whose statistics are computed.
MaxColumnLen == 4

TextLens == {0, 40, MaxTextLen}

DataLens == {200, 5000}

Measured(complete, n, columns, stats, summarized, first, last, full, is_str) ==
    [complete |-> complete, row_count |-> n, columns |-> columns,
     summary_stats |-> stats, is_summarized |-> summarized, first_rows |-> first,
     last_rows |-> last, full_data |-> full, full_is_str |-> is_str]

\* Prepared results, measured: of an empty table, of a table sent whole, of
\* a sampled one, and the minimal result.
MeasuredResults ==
    {Measured(TRUE, 0, 25, 0, FALSE, 0, 0, 14, TRUE)}
      \cup {Measured(TRUE, n, 25, st, FALSE, 0, 0, d, FALSE) :
              n \in {1, 100}, st \in TextLens, d \in DataLens}
      \cup {Measured(TRUE, n, 25, st, TRUE, d, d, 0, FALSE) :
              n \in {101, 500}, st \in TextLens, d \in DataLens}
      \cup {Measured(FALSE, n, 25, 0, FALSE, 0, 0, 34, TRUE) : n \in {1, 500}}

FrameColumns ==
    {<<"Activity Id">>, <<"Activity Id", "Progress", "Start", "Duration">>}

\* At most one column whose statistics fail; none in a table without rows,
\* whose statistics are not computed.
StatsFaults(df) ==
    IF Len(df.index) = 0 THEN {{}}
    ELSE {{}} \cup {{c} : c \in Range(df.columns)}

\* The payload steps that raise, among those the table's size reaches.
DataFaults(df) ==
    IF Len(df.index) = 0 THEN {{}}
    ELSE IF is_full_context(Len(df.index))
    THEN {{}, {"records"}, {"records", "records_text"}}
    ELSE {{}, {"sample"}, {"sample", "sample_text"}}

\* The draws of the sample, when one is taken.
SampleDraws(df, raising) ==
    IF Len(df.index) = 0 \/ is_full_context(Len(df.index)) \/ "sample" \in raising
       \/ Len(middle_df(df.index)) = 0
    THEN {NoDraw}
    ELSE Draws(middle_df(df.index))

NumericValues == {1, 2, 4}

Cells == {NaN} \cup {Num(x) : x \in NumericValues}

\* The columns of 1..n cells.
NumericColumns(n) == UNION {[1..k -> Cells] : k \in 1..n}

CallGenerate ==
    /\ call = NoCall
    /\ \E k \in ApiKeys, e \in ApiEndpoints, q \in Questions \cup BlankQuestions,
          llm \in LlmResponses :
         /\ call' = [fn |-> "generate_sql_query", api_key |-> k, api_endpoint |-> e,
                     question |-> q, llm |-> llm]
         /\ result' = generate_sql_query(HasCredentials(k, e), q, llm)
    /\ UNCHANGED script

CallHumanize ==
    /\ call = NoCall
    /\ \E k \in ApiKeys, e \in ApiEndpoints, q \in Questions, sql \in Sqls,
          n \in 0..MaxRows, llm \in LlmResponses :
         /\ call' = [fn |-> "humanize_result", api_key |-> k, api_endpoint |-> e,
                     question |-> q, sql |-> sql, df |-> DataFrame(sql, n), llm |-> llm]
         /\ result' = humanize_result(HasCredentials(k, e), q, sql, DataFrame(sql, n), llm)
    /\ UNCHANGED script

\* A fenced completion arrives (query_generator.py:185-194).
CleanCompletion ==
    /\ call = NoCall
    /\ \E lead \in {<<>>, <<"\n">>}, open \in Gaps, s \in SqlTexts, close \in Gaps,
          trail \in {<<>>, <<" ">>} :
         /\ call' = [fn |-> "generated_sql", sql |-> s, open |-> open, close |-> close,
                     content |-> Fenced(lead, open, s, close, trail)]
         /\ result' = [ok |-> TRUE,
                       val |-> generated_sql(Fenced(lead, open, s, close, trail)),
                       requests |-> 1]
    /\ UNCHANGED script

FormatContext ==
    /\ call = NoCall
    /\ \E nl \in TextLens, sql \in TextLens, rd \in MeasuredResults :
         /\ call' = [fn |-> "format_query_context", nl_query |-> nl, sql_query |-> sql,
                     result_data |-> rd]
         /\ result' = format_query_context(nl, sql, rd)
    /\ UNCHANGED script

PrepareResult ==
    /\ call = NoCall
    /\ \E columns \in FrameColumns, n \in 0..MaxTableRows :
         LET df == Frame(columns, n) IN
         \E failing \in StatsFaults(df), raising \in DataFaults(df) :
           \E draw \in SampleDraws(df, raising) :
             /\ call' = [fn |-> "prepare_result_for_gpt", df |-> df,
                         failing |-> failing, raising |-> raising, draw |-> draw]
             /\ result' = prepare_result_for_gpt(df, failing, raising, draw)
    /\ UNCHANGED script

NumericStats ==
    /\ call = NoCall
    /\ \E values \in NumericColumns(MaxColumnLen) :
         /\ call' = [fn |-> "numeric_stats", values |-> values]
         /\ result' = numeric_stats(values)
    /\ UNCHANGED script

\* humanize_result on a prepared result (lines 313-349).
HumanizeContext ==
    /\ call = NoCall
    /\ \E k \in ApiKeys, nl \in TextLens, rd \in MeasuredResults, llm \in LlmResponses :
         /\ call' = [fn |-> "humanize_result_context", api_key |-> k,
                     api_endpoint |-> "https://endpoint", nl_query |-> nl,
                     sql_query |-> 40, result_data |-> rd, llm |-> llm]
         /\ result' = humanize_result_context(HasCredentials(k, "https://endpoint"),
                                              nl, 40, rd, llm)
    /\ UNCHANGED script

\* query_generator.py:109-120: the schema is embedded with json.dumps, which
\* writes every table of schema_info["tables"] with its column list and
\* every entry of schema_info["relationships"], and nothing else.
format_system_prompt(schema) ==
    [tables |-> schema.tables, relationships |-> schema.relationships]

\* A generator is constructed on an empty session (its schema is built from
\* the database, lines 30-60) and asked for SQL.
GenerateWithSchema ==
    /\ call = NoCall
    /\ \E cat \in Catalogs, f \in SchemaFaults, q \in Questions, llm \in LlmResponses :
         LET r == load_schema_info(NoSchema, "None", TRUE, cat,
                                   f.tablesOk, f.colFail, f.relsOk)
             g == generate_sql_query(TRUE, q, llm)
         IN /\ call' = [fn |-> "SQLQueryGenerator", catalog |-> cat, faults |-> f,
                        question |-> q, llm |-> llm]
            /\ result' = [ok |-> g.ok, val |-> g.val, requests |-> g.requests,
                          enumerated |-> r.enumerated,
                          system_prompt |-> format_system_prompt(r.schema)]
    /\ UNCHANGED script

\* _load_schema_info builds the schema of a reachable database on an empty
\* session.
LoadSchemaInfo ==
    /\ call = NoCall
    /\ \E cat \in Catalogs, f \in SchemaFaults :
         LET r == load_schema_info(NoSchema, "None", TRUE, cat,
                                   f.tablesOk, f.colFail, f.relsOk)
         IN /\ call' = [fn |-> "_load_schema_info", catalog |-> cat, faults |-> f]
            /\ result' = [schema |-> r.schema, log |-> r.log,
                          enumerated |-> r.enumerated]
    /\ UNCHANGED script

\* get_database_schema_info builds the schema of a reachable database.
GetDatabaseSchemaInfo ==
    /\ call = NoCall
    /\ \E cat \in Catalogs, f \in SchemaFaults :
         LET r == get_database_schema_info("None", TRUE, cat,
                                           f.tablesOk, f.colFail, f.relsOk)
         IN /\ call' = [fn |-> "get_database_schema_info", catalog |-> cat,
                        faults |-> f]
            /\ result' = [schema |-> r.schema, log |-> r.log,
                          enumerated |-> r.enumerated]
    /\ UNCHANGED script

NextFunctions ==
    \/ CallGenerate
    \/ CallHumanize
    \/ HumanizeContext
    \/ GenerateWithSchema
    \/ LoadSchemaInfo
    \/ GetDatabaseSchemaInfo
    \/ CleanCompletion
    \/ FormatContext
    \/ PrepareResult
    \/ NumericStats

InitFunctions == Init /\ credentials = TRUE /\ dbUp = TRUE /\ dbTables = Tables

SpecFunctions == InitFunctions /\ [][NextFunctions]_vars

(***************************************************************************)
(* Claims                                                                  *)
(***************************************************************************)
\* A rerun that handled the interaction click has finished.
Handled(click) == pc = "idle" /\ run.click = click /\ ~run.aborted

\* C1: after a "Generate SQL and Execute" submission of a non-empty question,
\* whatever its outcome, the session holds no explanation (summary is empty)
\* and no result table of an earlier turn (query_result is None or was
\* stored by this submission).
C1_SubmissionDiscardsPreviousTurn ==
    (Handled("generate") /\ nl_input # "")
        => (summary = "" /\ (query_result = NoTable \/ run.stored))

C5_SummarizeChangesOnlyTheExplanation ==
    [][run'.click = "summarize"
         => /\ nl_query' = nl_query
            /\ sql_query' = sql_query
            /\ query_result' = query_result
            /\ run'.humanizes = run.humanizes + 1
                 => /\ query_result.kind = "DataFrame"
                    /\ summary' \in {"explanation", "Error"}
                    /\ (summary' = "Error") = (run'.errors # run.errors)]_vars

\* C5 witness: a failed summarization has been handled and the table is
\* still stored.
C5_Witness ==
    /\ Handled("summarize")
    /\ run.humanizes = 1
    /\ summary = "Error"
    /\ query_result.kind = "DataFrame"

\* C6: no exception leaves execute_query; it returns (False, message) when
\* no connection can be established or the driver fails during execute,
\* fetch or commit, (True, table) for a row-returning statement and
\* (True, affected-row message) otherwise.
C6_ExecuteQueryNeverRaises ==
    \A i \in DOMAIN gwLog :
       gwLog[i].op = "execute_query"
         => /\ ~gwLog[i].raised
            /\ gwLog[i].ok = (gwLog[i].connected /\ gwLog[i].driver \in {"rows", "rowcount"})
            /\ gwLog[i].returns =
                 (IF gwLog[i].ok /\ gwLog[i].driver = "rows" THEN "DataFrame" ELSE "str")
            /\ run.outcome # "raised"

\* C6 witness: a commit that failed inside execute_query.
C6_Witness ==
    \E i \in DOMAIN gwLog :
       /\ gwLog[i].op = "execute_query"
       /\ gwLog[i].connected
       /\ gwLog[i].driver = "commit_error"
       /\ ~gwLog[i].ok

\* C7: within one Gateway call a failed connection check triggers exactly
\* one connect() attempt (and a passed check none); if it fails the call
\* ends in failure without running its statement; if no connection was open
\* and the server is reachable, one is opened before the statement runs.
C7_OneConnectAttemptPerCall ==
    \A i \in DOMAIN gwLog :
       /\ gwLog[i].connects = (IF gwLog[i].before = "open" /\ gwLog[i].up THEN 0 ELSE 1)
       /\ ~gwLog[i].connected
            => (gwLog[i].connects = 1 /\ ~gwLog[i].ran /\ ~gwLog[i].ok
                  /\ gwLog[i].after = "None")
       /\ gwLog[i].ran => (gwLog[i].connected /\ gwLog[i].after = "open")
       /\ (gwLog[i].before # "open" /\ gwLog[i].up)
            => (gwLog[i].connects = 1 /\ gwLog[i].ran)

\* C7 witness: the execute_query call of a submission found no connection
\* open (the rerun's earlier connect() had failed) and opened one.
C7_Witness ==
    /\ \E i \in DOMAIN gwLog :
          /\ gwLog[i].op = "execute_query"
          /\ gwLog[i].before = "None"
          /\ gwLog[i].connects = 1
          /\ gwLog[i].ran
    /\ pc = "summarize"

\* C8: when the database is unreachable a schema load ends in the
\* SchemaUnavailable failure; no other exception leaves the Schema Catalog.
C8_UnreachableIsSchemaUnavailable ==
    (load.called /\ ~load.cached /\ ~load.reachable)
        => load.outcome = "SchemaUnavailable"

\* C9: when the database is reachable but the table enumeration returns no
\* tables, the load fails with SchemaUnavailable; an empty SchemaInfo is
\* neither handed to the Generator nor stored in the session.
C9_NoTablesIsSchemaUnavailable ==
    (load.called /\ load.queried /\ load.enumerated = {})
        => /\ load.outcome = "SchemaUnavailable"
           /\ ~(schema_info.present /\ DOMAIN schema_info.tables = {})
           /\ ~(query_generator.present
                  /\ DOMAIN query_generator.schema_info.tables = {})

\* C10: a cached SchemaInfo is replaced only by an explicit refresh
\* (refresh_schema); no step of a page rerun rebuilds it.
C10_CacheReplacedOnlyByRefresh ==
    [][(schema_info.present /\ schema_info' # schema_info)
         => (load'.called /\ load'.forced)]_vars

\* C11: with the API key or the endpoint missing, generate_sql_query and
\* humanize_result both return the missing-credentials failure and issue no
\* HTTP request, whatever the question, the SQL and the result table.
C11_MissingCredentialsNoRequest ==
    (/\ call.fn \in {"generate_sql_query", "humanize_result"}
     /\ (call.api_key = "" \/ call.api_endpoint = ""))
    => (/\ ~result.ok
        /\ result.val = "credentials are missing"
        /\ result.requests = 0)

\* C11 witness: humanize_result was called with a key but no endpoint, on a
\* table with rows and an LLM that would have answered; nothing was sent.
C11_Witness ==
    /\ call.fn = "humanize_result"
    /\ call.api_key # ""
    /\ call.api_endpoint = ""
    /\ call.df.rows > 0
    /\ call.llm.kind = "completion"
    /\ ~result.ok
    /\ result.requests = 0

\* C12: with credentials present, generate_sql_query returns the
\* empty-question failure, without a request to the LLM, for every question
\* that is empty or consists only of whitespace.
C12_BlankQuestionIsEmptyQuestion ==
    (/\ call.fn = "generate_sql_query"
     /\ call.api_key # ""
     /\ call.api_endpoint # ""
     /\ call.question \in BlankQuestions)
    => (/\ ~result.ok
        /\ result.val = "provide a natural language query"
        /\ result.requests = 0)

\* C13: a completion made of the opening fence marker, an SQL text s and the
\* closing fence marker, with any whitespace (or none) between the markers
\* and s and around the completion, is returned as exactly s with its
\* surrounding whitespace trimmed.
C13_FenceStrippedExactly ==
    (call.fn = "generated_sql") => (result.ok /\ result.val = strip(call.sql))

\* C14: the context text _format_query_context returns, which
\* humanize_result sends as the user message, is at most 8,000 characters
\* long, whatever the question, the SQL and the prepared result.
C14_ContextWithinCeiling ==
    (call.fn = "format_query_context") => (result.len <= ContextCeiling)

C17_EmptyTableMarker ==
    (call.fn = "prepare_result_for_gpt" /\ Len(call.df.index) = 0)
    => (/\ result.row_count = 0
        /\ result.is_summarized = FALSE
        /\ result.full_data.kind = "str"
        /\ result.full_data.text = "No data found."
        /\ result.sample_data.kind = "None"
        /\ DOMAIN result.summary_stats = {})

\* C17 witness: a table with four columns and no row was shaped.
C17_Witness ==
    /\ call.fn = "prepare_result_for_gpt"
    /\ Len(call.df.index) = 0
    /\ Len(call.df.columns) = 4
    /\ result.column_count = 4
    /\ result.full_data.text = "No data found."

\* C18: the min, max, mean and median of a numeric column are those of its
\* non-null values ([1, 2, null, 4] gives min 1, max 4, mean 7/3); a column
\* without a non-null value gets null for each of them.
C18_NumericStatsSkipNulls ==
    (call.fn = "numeric_stats")
    => LET cells == {i \in DOMAIN call.values : ~call.values[i].null}
           vals == {call.values[i].v : i \in cells}
           k == Cardinality(cells)
           below(s) == Cardinality({i \in cells : call.values[i].v * s.den < s.num})
           above(s) == Cardinality({i \in cells : call.values[i].v * s.den > s.num})
       IN IF k = 0
          THEN /\ result.min.null
               /\ result.max.null
               /\ result.mean.null
               /\ result.median.null
          ELSE /\ ~result.min.null /\ ~result.max.null
               /\ ~result.mean.null /\ ~result.median.null
               /\ result.min.den = 1 /\ result.min.num \in vals
               /\ \A x \in vals : result.min.num <= x
               /\ result.max.den = 1 /\ result.max.num \in vals
               /\ \A x \in vals : result.max.num >= x
               /\ result.mean.num * k = result.mean.den * Sum(dropna(call.values))
               /\ 2 * below(result.median) <= k
               /\ 2 * above(result.median) <= k
               /\ (call.values = <<Num(1), Num(2), NaN, Num(4)>>)
                    => (/\ result.min.num = 1
                        /\ result.max.num = 4
                        /\ result.mean.num = 7 /\ result.mean.den = 3)

\* C18 witness: the statistics of [1, 2, null, 4] were computed.
C18_Witness ==
    /\ call.fn = "numeric_stats"
    /\ call.values = <<Num(1), Num(2), NaN, Num(4)>>
    /\ result.mean = [null |-> FALSE, num |-> 7, den |-> 3]
    /\ result.median = [null |-> FALSE, num |-> 2, den |-> 1]

\* C19: when the statistics of one column fail (and nothing else does),
\* that column alone gets the note marker, every other column gets its
\* statistics, the data payload is produced and the shape is complete.
C19_FailedColumnGetsNote ==
    (/\ call.fn = "prepare_result_for_gpt"
     /\ call.failing # {}
     /\ call.raising = {})
    => (/\ {"row_count", "column_count", "columns", "is_summarized",
            "summary_stats", "sample_data", "full_data"} \subseteq DOMAIN result
        /\ \A c \in call.failing :
             c \in DOMAIN result.summary_stats /\ result.summary_stats[c].keys = {"note"}
        /\ \A c \in Range(call.df.columns) \ call.failing :
             Dtype(c) # "other"
               => (/\ c \in DOMAIN result.summary_stats
                   /\ "note" \notin result.summary_stats[c].keys
                   /\ result.summary_stats[c].keys # {})
        /\ IF result.is_summarized
           THEN result.sample_data.kind = "dict"
           ELSE result.full_data.kind = "list")

\* C19 witness: in a sampled table the statistics of "Progress" failed and
\* those of "Activity Id" and "Start" were produced.
C19_Witness ==
    /\ call.fn = "prepare_result_for_gpt"
    /\ call.failing = {"Progress"}
    /\ call.raising = {}
    /\ result.is_summarized
    /\ result.summary_stats["Progress"].keys = {"note"}
    /\ "most_common" \in result.summary_stats["Activity Id"].keys
    /\ "min" \in result.summary_stats["Start"].keys
    /\ Len(result.sample_data.middle_sample.rows) = 5

\* C20: whatever the table and whichever internal step raises,
\* _prepare_result_for_gpt returns a shape that carries row_count,
\* column_count, the column names, the is_summarized flag, the summary
\* statistics and either full_data or sample_data.
C20_ShapeAlwaysComplete ==
    (call.fn = "prepare_result_for_gpt")
    => (/\ {"row_count", "column_count", "columns", "is_summarized",
            "summary_stats", "full_data", "sample_data"} \subseteq DOMAIN result
        /\ (result.full_data.kind # "None" \/ result.sample_data.kind # "None"))

\* C21: when the detailed context cannot be built (the prepared result is
\* the minimal one, so _format_query_context fails on its missing key),
\* humanize_result still sends its request, with the minimal context of
\* question, SQL, row count and columns, and the call succeeds whenever the
\* LLM answers.
C21_ContextFailureFallsBack ==
    (/\ call.fn = "humanize_result_context"
     /\ call.api_key # ""
     /\ ~call.result_data.complete)
    => (/\ result.requests = 1
        /\ result.context.how = "simplified"
        /\ result.context.len =
             simplified_context(call.nl_query, call.sql_query, call.result_data)
        /\ result.ok = (call.llm.kind = "completion"))

\* C21 witness: the minimal result of a 500-row table was summarized from
\* the minimal context.
C21_Witness ==
    /\ call.fn = "humanize_result_context"
    /\ ~call.result_data.complete
    /\ call.result_data.row_count = 500
    /\ call.llm.kind = "completion"
    /\ result.context.how = "simplified"
    /\ result.ok

\* C22: in the Generator and in the Summarizer a response without a usable
\* completion (no "choices" field, an empty "choices" list, a first choice
\* without message content) gives the unexpected-format failure, never a
\* success and never the failure of a timeout or of a failed request.
C22_NoCompletionIsUnexpectedFormat ==
    (/\ call.fn \in {"generate_sql_query", "humanize_result"}
     /\ call.api_key # ""
     /\ call.api_endpoint # ""
     /\ (call.fn = "generate_sql_query" => call.question # "")
     /\ call.llm.kind \in {"no_choices", "empty_choices", "no_content"})
    => (/\ ~result.ok
        /\ result.requests = 1
        /\ result.val = "unexpected response format")

(***************************************************************************)
(* HTTP requests to the LLM endpoint: requests.post with or without a      *)
(* timeout.  call is the request, result where it stands and, for a        *)
(* request with a timeout, how long its timer has run (seconds without an   *)
(* answer).                                                                 *)
(***************************************************************************)

\* The five places that post to the endpoint.
Clients ==
    {"generate_sql_query", "humanize_result", "test_connection",
     "azure_api.generate_response_stream", "streamlit_app.generate_response_stream"}

\* The timeout argument of each requests.post; requests waits without limit
\* when none is given.
RequestTimeout(client) ==
    CASE client = "generate_sql_query" -> [given |-> TRUE, seconds |-> 30]
      [] client = "humanize_result" -> [given |-> TRUE, seconds |-> 30]
      [] client = "test_connection" -> [given |-> TRUE, seconds |-> 10]
      [] client = "azure_api.generate_response_stream" -> [given |-> TRUE, seconds |-> 30]
      [] client = "streamlit_app.generate_response_stream" -> [given |-> FALSE, seconds |-> 0]

\* A request is waiting for the endpoint.
Pending == call.fn = "requests.post" /\ result.status = "pending"

\* requests.post is called.
PostRequest ==
    /\ call = NoCall
    /\ \E client \in Clients :
         /\ call' = [fn |-> "requests.post", client |-> client,
                     timeout |-> RequestTimeout(client)]
         /\ result' = [status |-> "pending", waited |-> 0]
    /\ UNCHANGED script

\* A second of the request's timer passes without an answer.  A request
\* without timeout has no timer: the client blocks in the socket read and
\* nothing on its side ends the wait.
Wait ==
    /\ Pending
    /\ call.timeout.given
    /\ result.waited < call.timeout.seconds
    /\ result' = [result EXCEPT !.waited = @ + 1]
    /\ UNCHANGED <<call, script>>

\* The wait reached the timeout: requests raises Timeout, which each client
\* turns into its failure.
TimeOut ==
    /\ Pending
    /\ call.timeout.given
    /\ result.waited = call.timeout.seconds
    /\ result' = [result EXCEPT !.status = "timeout"]
    /\ UNCHANGED <<call, script>>

\* The endpoint answers.
Respond ==
    /\ Pending
    /\ result' = [result EXCEPT !.status = "response"]
    /\ UNCHANGED <<call, script>>

\* The connection fails.
ConnectionError ==
    /\ Pending
    /\ result' = [result EXCEPT !.status = "error"]
    /\ UNCHANGED <<call, script>>

NextRequests ==
    \/ PostRequest
    \/ Wait
    \/ TimeOut
    \/ Respond
    \/ ConnectionError

\* A running timer advances and a due timeout is raised; whether the
\* endpoint ever answers is up to the endpoint.
SpecRequests ==
    /\ InitFunctions
    /\ [][NextRequests]_vars
    /\ WF_vars(Wait)
    /\ WF_vars(TimeOut)

\* C23: every request to the LLM endpoint has a finite timeout, so every
\* request that is waiting eventually completes or fails.
C23_EveryRequestEnds == Pending ~> ~Pending

(***************************************************************************)
(* Streaming chat clients: AzureOpenAIChat.generate_response_stream of     *)
(* azure_api.py (used by main.py) and of streamlit_app.py, with the loop   *)
(* of their consumer.  call holds the client and the lines the endpoint    *)
(* sends before it closes the connection; result holds how many lines were *)
(* read, the consumer's full_response and the state of the stream.         *)
(***************************************************************************)

\* The longest streamed response, in lines.
MaxFrames == 3

StreamClients == {"azure_api", "streamlit_app"}

\* The content increments of well-formed frames.
Increments == {<<"a">>, <<"b", "c">>}

\* Lines that carry no increment:
\*   empty          an empty line (the separator of two events)
\*   no_prefix      a line that does not start with "data: "
\*   bad_json       "data: " followed by text that is not JSON
\*   json_scalar    "data: " followed by JSON that is no container (42, null)
\*   json_list      "data: " followed by a JSON list
\*   no_choices     a JSON object without "choices"
\*   empty_choices  a JSON object whose "choices" is []
\*   no_content     a first choice whose delta has no "content"
\*   done           the sentinel "data: [DONE]"
Malformed ==
    {"empty", "no_prefix", "bad_json", "json_scalar", "json_list", "no_choices",
     "empty_choices", "no_content"}

Lines ==
    {[kind |-> "content", content |-> c] : c \in Increments}
      \cup {[kind |-> k, content |-> <<>>] : k \in Malformed \cup {"done"}}

Streams == UNION {[1..n -> Lines] : n \in 0..MaxFrames}

\* azure_api.py:65-76, one pass of the loop: the increment is yielded, the
\* line is passed over, or an exception leaves the loop.  Only
\* json.JSONDecodeError is caught inside the loop; the TypeError of
\* ('choices' in 42) reaches line 78.
azure_api_line(line) ==
    IF line.kind \in {"empty", "done"} THEN "continue"
    ELSE IF line.kind = "no_prefix" THEN "continue"
    ELSE IF line.kind = "bad_json" THEN "continue"
    ELSE IF line.kind = "json_scalar" THEN "raise"
    ELSE IF line.kind \in {"json_list", "no_choices", "empty_choices"} THEN "continue"
    ELSE IF line.kind = "no_content" THEN "continue"
    ELSE "yield"

\* streamlit_app.py:66-77, one pass of the loop.  JSONDecodeError, IndexError
\* and KeyError are caught inside the loop; a TypeError reaches line 80.
streamlit_app_line(line) ==
    IF line.kind = "done" THEN "break"
    ELSE IF line.kind \in {"empty", "no_prefix"} THEN "continue"
    ELSE IF line.kind = "bad_json" THEN "continue"
    ELSE IF line.kind = "json_scalar" THEN "raise"
    ELSE IF line.kind \in {"json_list", "no_choices", "empty_choices"} THEN "continue"
    ELSE IF line.kind = "no_content" THEN "continue"
    ELSE "yield"

stream_line(client, line) ==
    IF client = "azure_api" THEN azure_api_line(line) ELSE streamlit_app_line(line)

\* A stream is being consumed.
Streaming == call.fn = "generate_response_stream" /\ result.status = "streaming"

\* The consumer starts iterating generate_response_stream (main.py:79,
\* streamlit_app.py:189) with an empty full_response.
StartStream ==
    /\ call = NoCall
    /\ \E client \in StreamClients, lines \in Streams :
         /\ call' = [fn |-> "generate_response_stream", client |-> client,
                     lines |-> lines]
         /\ result' = [read |-> 0, full_response |-> <<>>, status |-> "streaming"]
    /\ UNCHANGED script

\* One line of response.iter_lines() is handled; a yielded increment is
\* appended by the consumer (full_response += text_chunk), an exception
\* becomes the RuntimeError the consumer reports.
ReadLine ==
    /\ Streaming
    /\ result.read < Len(call.lines)
    /\ LET line == call.lines[result.read + 1]
           step == stream_line(call.client, line)
       IN result' =
            [read |-> result.read + 1,
             full_response |->
                 IF step = "yield" THEN result.full_response \o line.content
                 ELSE result.full_response,
             status |->
                 IF step = "raise" THEN "failed"
                 ELSE IF step = "break" THEN "ended"
                 ELSE "streaming"]
    /\ UNCHANGED <<call, script>>

\* The endpoint closed the connection: iter_lines is exhausted.
ConnectionClosed ==
    /\ Streaming
    /\ result.read = Len(call.lines)
    /\ result' = [result EXCEPT !.status = "ended"]
    /\ UNCHANGED <<call, script>>

NextStream ==
    \/ StartStream
    \/ ReadLine
    \/ ConnectionClosed

SpecStream == InitFunctions /\ [][NextStream]_vars

\* The increments of the well-formed frames among lines, in arrival order.
RECURSIVE Contents(_)
Contents(lines) ==
    IF lines = <<>> THEN <<>>
    ELSE (IF Head(lines).kind = "content" THEN Head(lines).content ELSE <<>>)
           \o Contents(Tail(lines))

\* The lines that arrived before the first done sentinel.
RECURSIVE BeforeDone(_)
BeforeDone(lines) ==
    IF lines = <<>> THEN <<>>
    ELSE IF Head(lines).kind = "done" THEN <<>>
    ELSE <<Head(lines)>> \o BeforeDone(Tail(lines))

\* C24: a line that does not match the expected envelope is skipped: a
\* stream without sentinel never fails, and the consumer has received the
\* increment of every well-formed frame read so far.
C24_MalformedFramesSkipped ==
    (/\ call.fn = "generate_response_stream"
     /\ \A i \in 1..Len(call.lines) : call.lines[i].kind # "done")
    => (/\ result.status # "failed"
        /\ result.full_response = Contents(SubSeq(call.lines, 1, result.read)))

\* C25: the stream ends at the done sentinel or when the connection closes:
\* the text accumulated by the consumer is the concatenation, in arrival
\* order, of the increments read before the sentinel, and nothing that
\* arrived after the sentinel.
C25_StreamEndsAtSentinel ==
    call.fn = "generate_response_stream"
    => result.full_response
         = Contents(BeforeDone(SubSeq(call.lines, 1, result.read)))

\* C26: every generation request that reaches the LLM carries a system
\* prompt with the complete schema: every table enumerated from the
\* database with all of its columns, and every relationship.
C26_PromptHasCompleteSchema ==
    (call.fn = "SQLQueryGenerator" /\ result.requests = 1)
    => (/\ DOMAIN result.system_prompt.tables = result.enumerated
        /\ \A t \in result.enumerated : result.system_prompt.tables[t] = Columns(t)
        /\ result.system_prompt.relationships = ForeignKeys(call.catalog))

\* The calls of one Gateway method in a log whose statement was sent.
Issued(log, op) == Cardinality({i \in DOMAIN log : log[i].op = op /\ log[i].ran})

\* C27: building a SchemaInfo issues exactly one relationship query,
\* whatever the number of tables (none included), and one column query for
\* each enumerated table.
C27_OneRelationshipQuery ==
    call.fn \in {"_load_schema_info", "get_database_schema_info"}
    => (/\ Issued(result.log, "get_table_relationships") = 1
        /\ Issued(result.log, "get_table_schema") = Cardinality(result.enumerated)
        /\ Issued(result.log, "get_tables") = 1
        /\ call.faults.tablesOk => result.enumerated = call.catalog)

\* C27 witness: _load_schema_info built the schema of a database without
\* tables and asked once for the relationships.
C27_Witness ==
    /\ call.fn = "_load_schema_info"
    /\ call.catalog = {}
    /\ result.schema.present
    /\ Issued(result.log, "get_table_relationships") = 1
    /\ Issued(result.log, "get_table_schema") = 0

\* The question, the SQL and the table in the session are those of the rerun
\* that has just stored the table: the table is the result of executing the
\* stored SQL, which this rerun executed for the question in the text area.
TurnStored ==
    /\ run.stored
    /\ query_result.kind = "DataFrame"
    /\ query_result.sql = sql_query
    /\ run.executed = sql_query
    /\ nl_query = nl_input

\* C28: whenever summarization is invoked, the question, the SQL and the
\* table handed to humanize_result were stored by one turn: the summarize
\* button is offered only by a rerun that stored all three, its click finds
\* them as that rerun left them, and nothing changes them before
\* humanize_result is called on them.
C28_SummarizeSeesOneTurn ==
    /\ [](page.summarize_btn => TurnStored)
    /\ []((pc = "summarize" /\ generate_summary /\ query_result # NoTable)
            => (run.click = "summarize" /\ query_result.sql = sql_query))
    /\ [][run'.click = "summarize"
            => /\ UNCHANGED <<nl_query, sql_query, query_result>>
               /\ pc' = "main" => (page.summarize_btn /\ TurnStored)]_vars

\* C28 witness: the table of an edited re-execution was summarized with the
\* edited SQL and its question.
C28_Witness ==
    /\ pc = "advanced"
    /\ run.click = "summarize"
    /\ run.humanizes = 1
    /\ advanced_mode
    /\ query_result.kind = "DataFrame"
    /\ query_result.sql = sql_query
    /\ nl_query = nl_input

\* C29: a click of "Summarize Results" triggers exactly one humanize_result
\* call and no other rerun triggers any; the flag is cleared by the rerun
\* that consumes it, so it is false whenever a script run has ended, and it
\* is true only while a result table is stored.
C29_OneSummaryPerClick ==
    /\ pc = "idle" => ~generate_summary
    /\ generate_summary => (query_result # NoTable /\ run.click = "summarize")
    /\ Handled("summarize") => run.humanizes = 1
    /\ run.click # "summarize" => run.humanizes = 0
    /\ run.humanizes <= 1

\* C29 witness: a summarize click has been handled by one humanize_result
\* call and the flag is down again.
C29_Witness ==
    /\ Handled("summarize")
    /\ run.humanizes = 1
    /\ ~generate_summary
    /\ summary = "explanation"

\* C30: the rerun that handles a submission calls the SQL Generator exactly
\* once, so the SQL shown, the SQL executed and the SQL offered in the editor
\* are one string, with SQL editing enabled or not.
C30_OneGenerationPerSubmission ==
    (Handled("generate") /\ nl_input # "")
    => (/\ run.generates = 1
        /\ run.executes = 1 => run.executed = run.shown
        /\ (run.generated = "ok" /\ page.editor # "") => page.editor = run.shown)

====
